---- MODULE Spec2Model ----
(***************************************************************************)
(* Peer-to-peer mentorship platform (backend/app.py, backend/models.py,    *)
(* backend/config.py): the three tables, the cookie login session of each  *)
(* client and the HTTP handlers, one action per route.                     *)
(*                                                                         *)
(* Text that the code converts (strip, lower, regular expressions) is a    *)
(* sequence of one-character strings, so that the conversions are computed *)
(* and not assumed.  Text the code only compares (status names, error      *)
(* messages) is a plain string.                                            *)
(***************************************************************************)
EXTENDS Integers, Sequences, FiniteSets, TLC

VARIABLES
    users,          \* table users: sequence of rows, id = index
    sessions,       \* table sessions: sequence of rows, id = index
    feedback,       \* table feedback: sequence of rows, id = index
    flask_session,  \* per client: the user_id of its signed cookie, 0 = none
    resp,           \* the last HTTP response sent
    inflight        \* per client: the handler that is between its check and its commit

vars == <<users, sessions, feedback, flask_session, resp, inflight>>

(***************************************************************************)
(* Bounds of the model.                                                    *)
(***************************************************************************)
\* a session request is taken up only while the table holds fewer rows
MaxSessions == 1

\* the passwords of SpecPassword have up to MaxRun capitals, MaxRun small
\* letters and MaxRun digits
MaxRun == 4

Clients == {"c1", "c2"}

(***************************************************************************)
(* Text helpers: str.strip(), str.lower(), re.search, re.match             *)
(***************************************************************************)
Whitespace == {" "}

UpperLetters == {"A", "B", "M", "N", "T", "V"}

LowerLetters == {"a", "b", "c", "d", "e", "h", "i", "l", "m", "n", "o", "r", "s", "t", "u", "v", "x", "z"}

DigitChars == {"1", "2", "3"}

lower_char(ch) ==
    CASE ch = "A" -> "a"
      [] ch = "B" -> "b"
      [] ch = "M" -> "m"
      [] ch = "N" -> "n"
      [] ch = "T" -> "t"
      [] ch = "V" -> "v"
      [] OTHER -> ch

str_lower(s) == [i \in 1..Len(s) |-> lower_char(s[i])]

str_strip(s) ==
    LET keep == {i \in 1..Len(s) : s[i] \notin Whitespace}
    IN  IF keep = {} THEN <<>>
        ELSE SubSeq(s, CHOOSE i \in keep : \A j \in keep : i <= j,
                       CHOOSE i \in keep : \A j \in keep : i >= j)

has_char(s, class) == \E i \in 1..Len(s) : s[i] \in class

all_chars(s, class) == \A i \in 1..Len(s) : s[i] \in class

\* ^[a-zA-Z0-9._%+-]+@[a-zA-Z0-9.-]+\.[a-zA-Z]{2,}$
email_pattern(s) ==
    LET alnum == UpperLetters \cup LowerLetters \cup DigitChars
    IN  \E at \in 1..Len(s), dot \in 1..Len(s) :
            /\ s[at] = "@" /\ s[dot] = "." /\ at < dot
            /\ at > 1
            /\ all_chars(SubSeq(s, 1, at - 1), alnum \cup {".", "_", "%", "+", "-"})
            /\ dot > at + 1
            /\ all_chars(SubSeq(s, at + 1, dot - 1), alnum \cup {".", "-"})
            /\ Len(s) - dot >= 2
            /\ all_chars(SubSeq(s, dot + 1, Len(s)), UpperLetters \cup LowerLetters)

PASSWORD_MIN_LENGTH == 8

\* faulty variant: the small letters are looked for before the capitals
validate_password_lower_first(password) ==
    IF password = <<>> THEN "Password is required"
    ELSE IF Len(password) < PASSWORD_MIN_LENGTH
         THEN "Password must be at least 8 characters long"
    ELSE IF ~has_char(password, LowerLetters)
         THEN "Password must contain at least one lowercase letter"
    ELSE IF ~has_char(password, UpperLetters)
         THEN "Password must contain at least one uppercase letter"
    ELSE IF ~has_char(password, DigitChars)
         THEN "Password must contain at least one number"
    ELSE ""

\* validate_password: "" when valid, else the error message
validate_password(password) ==
    IF password = <<>> THEN "Password is required"
    ELSE IF Len(password) < PASSWORD_MIN_LENGTH
         THEN "Password must be at least 8 characters long"
    ELSE IF ~has_char(password, UpperLetters)
         THEN "Password must contain at least one uppercase letter"
    ELSE IF ~has_char(password, LowerLetters)
         THEN "Password must contain at least one lowercase letter"
    ELSE IF ~has_char(password, DigitChars)
         THEN "Password must contain at least one number"
    ELSE ""

\* faulty variant: the password is stored as it was sent
generate_password_hash_plain(password) == password

\* werkzeug: the text "scrypt:...$<salt>$<digest>", a one-way image of the
\* password; modelled without the salt as the method tag followed by the
\* digest, the digest being written as the password it is the digest of
generate_password_hash(password) == <<"s", "c", "r", "y", "p", "t", "$">> \o password

check_password_hash(pwhash, password) == pwhash = generate_password_hash(password)

(***************************************************************************)
(* Roles and session statuses                                              *)
(***************************************************************************)
ROLE_MENTOR == <<"m", "e", "n", "t", "o", "r">>

ROLE_MENTEE == <<"m", "e", "n", "t", "e", "e">>

ROLE_BOTH == <<"b", "o", "t", "h">>

Roles == {ROLE_MENTOR, ROLE_MENTEE, ROLE_BOTH}

PENDING == "pending"

ACCEPTED == "accepted"

REJECTED == "rejected"

COMPLETED == "completed"

SessionStatus == {PENDING, ACCEPTED, REJECTED, COMPLETED}

(***************************************************************************)
(* Responses                                                               *)
(***************************************************************************)
\* jsonify(...), code: the error text ("" on success) and the id of the user
\* the body carries (0 = none / null)
Reply(code, error, user) == [code |-> code, error |-> error, user |-> user]

NoReply == Reply(0, "", 0)

Idle == [pc |-> "idle"]

(***************************************************************************)
(* Queries                                                                 *)
(***************************************************************************)
UserIds == 1..Len(users)

SessionIds == 1..Len(sessions)

FeedbackIds == 1..Len(feedback)

\* User.query.filter_by(email=email).first(): the id found, 0 = None
user_by_email(email) ==
    IF \E u \in UserIds : users[u].email = email
    THEN CHOOSE u \in UserIds : users[u].email = email
    ELSE 0

\* faulty variant: the column is not declared unique
unique_email_missing(row) == TRUE

\* users.email is declared unique=True: the insert of a row is refused
\* (IntegrityError) when a committed row has the same email
unique_email_ok(row) == \A u \in UserIds : users[u].email # row.email

\* login_required / get_current_user: flask_session.get("user_id")
current_user_id(c) == flask_session[c]

\* faulty variant: the route guard lets every request through
authenticated_always(c) == TRUE

authenticated(c) == current_user_id(c) # 0

Unauthorized == Reply(401, "Authentication required", 0)

(***************************************************************************)
(* Request bodies the clients send                                         *)
(***************************************************************************)
EMAIL_A == <<"a", "@", "x", ".", "i", "o">>

EMAIL_A_RAW == <<" ", "A", "@", "x", ".", "i", "o", " ">>

EMAIL_B == <<"b", "@", "x", ".", "i", "o">>

EMAIL_C == <<"c", "@", "x", ".", "i", "o">>

EMAIL_BAD == <<"a", "@", "x">>

PW_VALID == <<"V", "a", "l", "i", "d", "1", "2", "3">>

PW_SHORT == <<"s", "h", "o", "r", "t", "1", "A">>

NAME == <<"n">>

SignupBody(name, email, password, role) ==
    [name |-> name, email |-> email, password |-> password, role |-> role]

\* the signups of alice (twice: the second with the email in another case and
\* padded, and a role that does not exist) and bob, and five refused ones
SignupBodies ==
    { SignupBody(NAME, EMAIL_A, PW_VALID, ROLE_MENTEE),
      SignupBody(NAME, EMAIL_A_RAW, PW_VALID, <<"a", "d", "m", "i", "n">>),
      SignupBody(NAME, EMAIL_B, PW_VALID, <<" ", "M", "e", "n", "t", "o", "r">>),
      SignupBody(<<" ">>, EMAIL_B, PW_VALID, ROLE_BOTH),
      SignupBody(NAME, <<>>, PW_VALID, ROLE_BOTH),
      SignupBody(NAME, EMAIL_B, <<>>, ROLE_BOTH),
      SignupBody(NAME, EMAIL_BAD, PW_VALID, ROLE_BOTH),
      SignupBody(NAME, EMAIL_B, PW_SHORT, ROLE_BOTH) }

EMAIL_D == <<"d", "@", "x", ".", "i", "o">>

LoginBody(email, password) == [email |-> email, password |-> password]

LoginBodies ==
    { LoginBody(e, PW_VALID) : e \in {EMAIL_A_RAW, EMAIL_B, EMAIL_C, EMAIL_D} }
    \cup { LoginBody(EMAIL_B, PW_SHORT), LoginBody(<<>>, PW_VALID), LoginBody(EMAIL_B, <<>>) }

(***************************************************************************)
(* POST /api/auth/signup                                                   *)
(***************************************************************************)
signup_role(role) ==
    LET r == str_lower(str_strip(role))
    IN  IF r \in Roles THEN r ELSE ROLE_MENTEE

signup_email(data) == str_lower(str_strip(data.email))

\* the validation of signup, up to the proactive email check: "" = passed
signup_validate(data) ==
    IF str_strip(data.name) = <<>> THEN "Name is required"
    ELSE IF signup_email(data) = <<>> THEN "Email is required"
    ELSE IF data.password = <<>> THEN "Password is required"
    ELSE IF ~email_pattern(signup_email(data)) THEN "Invalid email format"
    ELSE IF validate_password(data.password) # "" THEN validate_password(data.password)
    ELSE IF user_by_email(signup_email(data)) # 0 THEN "Email already registered"
    ELSE ""

signup_user(data) ==
    [name |-> str_strip(data.name),
     email |-> signup_email(data),
     password_hash |-> generate_password_hash(data.password),
     role |-> signup_role(data.role),
     experience |-> [t |-> "null"]]

\* db.session.add(user); db.session.commit(); then the auto-login, or the
\* IntegrityError handler
signup_commit(c, row) ==
    IF unique_email_ok(row)
    THEN /\ users' = Append(users, row)
         /\ flask_session' = [flask_session EXCEPT ![c] = Len(users) + 1]
         /\ resp' = Reply(201, "", Len(users) + 1)
    ELSE /\ resp' = Reply(400, "Email already registered", 0)
         /\ UNCHANGED <<users, flask_session>>

\* the handler up to its commit: requests of other clients may run between
\* its query for the email and its commit
SignupBegin(c, data) ==
    /\ inflight[c] = Idle
    /\ IF signup_validate(data) # ""
       THEN /\ resp' = Reply(400, signup_validate(data), 0)
            /\ UNCHANGED inflight
       ELSE /\ inflight' = [inflight EXCEPT ![c] = [pc |-> "signup", row |-> signup_user(data)]]
            /\ UNCHANGED resp
    /\ UNCHANGED <<users, sessions, feedback, flask_session>>

SignupCommit(c) ==
    /\ inflight[c].pc = "signup"
    /\ signup_commit(c, inflight[c].row)
    /\ inflight' = [inflight EXCEPT ![c] = Idle]
    /\ UNCHANGED <<sessions, feedback>>

(***************************************************************************)
(* POST /api/auth/login, POST /api/auth/logout, GET /api/auth/me           *)
(***************************************************************************)
\* faulty variant: an unknown email is told apart from a wrong password
login_reply_revealing(data) ==
    LET email == str_lower(str_strip(data.email))
        user  == user_by_email(email)
    IN  IF email = <<>> \/ data.password = <<>>
        THEN Reply(400, "Email and password are required", 0)
        ELSE IF user = 0
        THEN Reply(404, "No account with this email", 0)
        ELSE IF ~check_password_hash(users[user].password_hash, data.password)
        THEN Reply(401, "Invalid email or password", 0)
        ELSE Reply(200, "", user)

login_reply(data) ==
    LET email == str_lower(str_strip(data.email))
        user  == user_by_email(email)
    IN  IF email = <<>> \/ data.password = <<>>
        THEN Reply(400, "Email and password are required", 0)
        ELSE IF user = 0 \/ ~check_password_hash(users[user].password_hash, data.password)
        THEN Reply(401, "Invalid email or password", 0)
        ELSE Reply(200, "", user)

\* faulty variant: a refused login ends the login of its client
Login_forgetting_on_failure(c, data) ==
    /\ inflight[c] = Idle
    /\ resp' = login_reply(data)
    /\ flask_session' = IF login_reply(data).code = 200
                        THEN [flask_session EXCEPT ![c] = login_reply(data).user]
                        ELSE [flask_session EXCEPT ![c] = 0]
    /\ UNCHANGED <<users, sessions, feedback, inflight>>

Login(c, data) ==
    /\ inflight[c] = Idle
    /\ resp' = login_reply(data)
    /\ flask_session' = IF login_reply(data).code = 200
                        THEN [flask_session EXCEPT ![c] = login_reply(data).user]
                        ELSE flask_session
    /\ UNCHANGED <<users, sessions, feedback, inflight>>

\* faulty variant: the login session is kept
Logout_keeps_session(c) ==
    /\ inflight[c] = Idle
    /\ resp' = Reply(200, "", 0)
    /\ UNCHANGED <<users, sessions, feedback, flask_session, inflight>>

Logout(c) ==
    /\ inflight[c] = Idle
    /\ flask_session' = [flask_session EXCEPT ![c] = 0]
    /\ resp' = Reply(200, "", 0)
    /\ UNCHANGED <<users, sessions, feedback, inflight>>

\* get_current_user(): None without a user_id, else User.query.get(user_id)
get_current_user(c) == IF current_user_id(c) \in UserIds THEN current_user_id(c) ELSE 0

Me(c) ==
    /\ inflight[c] = Idle
    /\ resp' = Reply(200, "", get_current_user(c))
    /\ UNCHANGED <<users, sessions, feedback, flask_session, inflight>>

(***************************************************************************)
(* JSON values of a request body, as Python and the database read them     *)
(***************************************************************************)
JNull == [t |-> "null"]

JInt(n) == [t |-> "int", v |-> n]

\* a JSON string holding the decimal digits of n
JStr(n) == [t |-> "str", v |-> n]

\* a JSON string that holds no number
JText == [t |-> "text"]

\* Python's "not x": None and 0 are falsy, a non-empty string is truthy
py_not(j) == j.t = "null" \/ (j.t = "int" /\ j.v = 0)

\* Python's "x == user.id" with an int on the right: a str never equals an int
py_eq_int(j, n) == j.t = "int" /\ j.v = n

\* the value an INTEGER column is compared with, or is given, for a bound
\* parameter: the database reads the digits of a numeric string
db_int(j) == j.v

(***************************************************************************)
(* GET/POST /api/sessions                                                  *)
(***************************************************************************)
TOPIC_T == <<"t">>

TOPIC_U == <<"u">>

SessionBody(mentor_id, topic, scheduled_time) ==
    [mentor_id |-> mentor_id, topic |-> topic, meeting_link |-> <<>>,
     scheduled_time |-> scheduled_time]

\* mentor_id: absent, the ids of the first two accounts as a number, the
\* second also as a string, and an id no account has
SessionBodies ==
    { SessionBody(m, <<" ", "t">>, "none") : m \in {JInt(1), JInt(2), JStr(2), JInt(4)} }
    \cup { SessionBody(JNull, TOPIC_T, "none"),
           SessionBody(JInt(2), <<" ">>, "none"),
           SessionBody(JInt(2), TOPIC_T, "iso"),
           SessionBody(JInt(2), TOPIC_T, "bad") }

\* faulty variant: every user may be requested as mentor
can_mentor_anyone(u) == TRUE

can_mentor(u) == users[u].role \in {ROLE_MENTOR, ROLE_BOTH}

\* the duplicate query: a pending or accepted session of the same requester,
\* mentor and topic
\* faulty variant: a session of any status counts as a duplicate
existing_session_any_status(requester, mentor, topic) ==
    \E s \in SessionIds :
        /\ sessions[s].requester_id = requester
        /\ sessions[s].mentor_id = mentor
        /\ sessions[s].topic = topic

existing_session(requester, mentor, topic) ==
    \E s \in SessionIds :
        /\ sessions[s].requester_id = requester
        /\ sessions[s].mentor_id = mentor
        /\ sessions[s].topic = topic
        /\ sessions[s].status \in {PENDING, ACCEPTED}

is_self_request(mentor_id, uid) == py_eq_int(mentor_id, uid)

\* POST /api/sessions up to the insert: the error reply, or code 0 = passed
sessions_post_check(uid, data) ==
    LET topic == str_strip(data.topic)
    IN  IF py_not(data.mentor_id) \/ topic = <<>>
        THEN Reply(400, "Mentor and topic are required", 0)
        ELSE IF is_self_request(data.mentor_id, uid)
        THEN Reply(400, "You cannot request yourself as a mentor", 0)
        ELSE IF db_int(data.mentor_id) \notin UserIds
        THEN Reply(404, "Mentor not found", 0)
        ELSE IF ~can_mentor(db_int(data.mentor_id))
        THEN Reply(400, "This user is not available as a mentor", 0)
        ELSE IF existing_session(uid, db_int(data.mentor_id), topic)
        THEN Reply(400, "You already have a pending or accepted session with this mentor for this topic", 0)
        ELSE IF data.scheduled_time = "bad"
        THEN Reply(400, "Invalid scheduled_time format. Use ISO 8601 format.", 0)
        ELSE NoReply

\* Session(...): status takes the column default
session_row(uid, data) ==
    [requester_id |-> uid,
     mentor_id |-> db_int(data.mentor_id),
     topic |-> str_strip(data.topic),
     meeting_link |-> str_strip(data.meeting_link),
     status |-> PENDING]

\* POST /api/sessions; a request that would insert is taken up only while
\* the table holds fewer than limit rows
CreateSessionWithin(c, data, limit) ==
    /\ inflight[c] = Idle
    /\ IF ~authenticated(c)
       THEN resp' = Unauthorized /\ UNCHANGED sessions
       ELSE IF sessions_post_check(current_user_id(c), data) # NoReply
       THEN resp' = sessions_post_check(current_user_id(c), data) /\ UNCHANGED sessions
       ELSE /\ Len(sessions) < limit
            /\ sessions' = Append(sessions, session_row(current_user_id(c), data))
            /\ resp' = Reply(201, "", 0)
    /\ UNCHANGED <<users, feedback, flask_session, inflight>>

CreateSession(c, data) == CreateSessionWithin(c, data, MaxSessions)

\* the handler up to its insert: requests of other clients may run between
\* its duplicate query and its insert
CreateSessionBegin(c, data) ==
    /\ inflight[c] = Idle
    /\ IF ~authenticated(c)
       THEN resp' = Unauthorized /\ UNCHANGED inflight
       ELSE IF sessions_post_check(current_user_id(c), data) # NoReply
       THEN resp' = sessions_post_check(current_user_id(c), data) /\ UNCHANGED inflight
       ELSE /\ Len(sessions) < MaxSessions
            /\ inflight' = [inflight EXCEPT ![c] =
                                [pc |-> "session", row |-> session_row(current_user_id(c), data)]]
            /\ UNCHANGED resp
    /\ UNCHANGED <<users, sessions, feedback, flask_session>>

\* db.session.add(session_obj); db.session.commit(): the table has no
\* uniqueness constraint, the insert always succeeds
CreateSessionCommit(c) ==
    /\ inflight[c].pc = "session"
    /\ sessions' = Append(sessions, inflight[c].row)
    /\ resp' = Reply(201, "", 0)
    /\ inflight' = [inflight EXCEPT ![c] = Idle]
    /\ UNCHANGED <<users, feedback, flask_session>>

GetSessions(c) ==
    /\ inflight[c] = Idle
    /\ resp' = IF authenticated(c) THEN Reply(200, "", 0) ELSE Unauthorized
    /\ UNCHANGED <<users, sessions, feedback, flask_session, inflight>>

(***************************************************************************)
(* PUT /api/sessions/<id>/status                                           *)
(***************************************************************************)
StatusBody(status, meeting_link) == [status |-> status, meeting_link |-> meeting_link]

StatusBodies ==
    { StatusBody(ACCEPTED, <<>>), StatusBody(ACCEPTED, <<" ">>), StatusBody(ACCEPTED, <<" ", "l">>),
      StatusBody(REJECTED, <<" ", "l">>),
      StatusBody(COMPLETED, <<" ", "l">>), StatusBody(PENDING, <<>>) }

\* faulty variant: either participant may accept or reject
only_mentor_or_requester(uid, s) == uid \in {s.mentor_id, s.requester_id}

only_mentor(uid, s) == uid = s.mentor_id

\* faulty variant: the requester is not counted as a participant
is_participant_mentor_only(uid, s) == uid = s.mentor_id

is_participant(uid, s) == uid \in {s.mentor_id, s.requester_id}

\* faulty variant: a rejected session may still be accepted
can_decide_again(s) == s.status \in {PENDING, REJECTED}

can_decide(s) == s.status = PENDING

\* faulty variant: a completed session cannot be completed again
can_complete_accepted_only(s) == s.status = ACCEPTED

can_complete(s) == s.status \in {ACCEPTED, COMPLETED}

\* the reply of the handler for an existing session
status_reply(uid, s, data) ==
    IF data.status \notin {ACCEPTED, REJECTED, COMPLETED}
    THEN Reply(400, "Invalid status", 0)
    ELSE IF data.status \in {ACCEPTED, REJECTED}
    THEN IF ~only_mentor(uid, s)
         THEN Reply(403, "Only the mentor can accept or reject sessions", 0)
         ELSE IF ~can_decide(s)
         THEN Reply(400, "Only pending sessions can be accepted or rejected", 0)
         ELSE Reply(200, "", 0)
    ELSE IF ~is_participant(uid, s)
         THEN Reply(403, "You are not authorized to update this session", 0)
         ELSE IF ~can_complete(s)
         THEN Reply(400, "Session must be accepted before it can be completed", 0)
         ELSE Reply(200, "", 0)

\* faulty variant: the link is stored with every status
status_row_link_always(s, data) ==
    [s EXCEPT !.status = data.status,
              !.meeting_link = IF str_strip(data.meeting_link) # <<>>
                               THEN str_strip(data.meeting_link)
                               ELSE @]

\* the row the handler commits when it replies 200
status_row(s, data) ==
    [s EXCEPT !.status = data.status,
              !.meeting_link = IF data.status = ACCEPTED /\ str_strip(data.meeting_link) # <<>>
                               THEN str_strip(data.meeting_link)
                               ELSE @]

\* Session.query.get_or_404 raises NotFound inside the try block: the
\* "except Exception" clause answers it
StatusNotFound == Reply(500, "Failed to update session status", 0)

UpdateSessionStatus(c, sid, data) ==
    /\ inflight[c] = Idle
    /\ IF ~authenticated(c)
       THEN resp' = Unauthorized /\ UNCHANGED sessions
       ELSE IF sid \notin SessionIds
       THEN resp' = StatusNotFound /\ UNCHANGED sessions
       ELSE /\ resp' = status_reply(current_user_id(c), sessions[sid], data)
            /\ sessions' = IF status_reply(current_user_id(c), sessions[sid], data).code = 200
                           THEN [sessions EXCEPT ![sid] = status_row(@, data)]
                           ELSE sessions
    /\ UNCHANGED <<users, feedback, flask_session, inflight>>

\* the UPDATE of the commit when other requests ran since the row was
\* loaded: it sets the columns whose assigned value differs from the loaded
\* one, in the row as it is stored by then, and tests nothing
status_write(current, loaded, data) ==
    [current EXCEPT
        !.status = IF status_row(loaded, data).status # loaded.status
                   THEN status_row(loaded, data).status ELSE @,
        !.meeting_link = IF status_row(loaded, data).meeting_link # loaded.meeting_link
                         THEN status_row(loaded, data).meeting_link ELSE @]

\* the handler up to its commit: it loads the session and checks the caller
\* and the loaded status; requests of other clients may run before it
\* commits
UpdateSessionStatusBegin(c, sid, data) ==
    /\ inflight[c] = Idle
    /\ IF ~authenticated(c)
       THEN resp' = Unauthorized /\ UNCHANGED inflight
       ELSE IF sid \notin SessionIds
       THEN resp' = StatusNotFound /\ UNCHANGED inflight
       ELSE IF status_reply(current_user_id(c), sessions[sid], data).code # 200
       THEN resp' = status_reply(current_user_id(c), sessions[sid], data) /\ UNCHANGED inflight
       ELSE /\ inflight' = [inflight EXCEPT ![c] =
                                [pc |-> "status", sid |-> sid, data |-> data,
                                 loaded |-> sessions[sid]]]
            /\ UNCHANGED resp
    /\ UNCHANGED <<users, sessions, feedback, flask_session>>

UpdateSessionStatusCommit(c) ==
    /\ inflight[c].pc = "status"
    /\ sessions' = [sessions EXCEPT ![inflight[c].sid] =
                        status_write(@, inflight[c].loaded, inflight[c].data)]
    /\ resp' = Reply(200, "", 0)
    /\ inflight' = [inflight EXCEPT ![c] = Idle]
    /\ UNCHANGED <<users, feedback, flask_session>>

(***************************************************************************)
(* POST /api/sessions/<id>/feedback, GET /api/users/<id>/feedback          *)
(***************************************************************************)
FeedbackBodies == [rating : {JNull, JText, JInt(0), JStr(5), JInt(6)}]

\* the ratings of SpecRating: none, text, and numbers at and around the ends
\* of the range
RatingBodies == [rating : {JNull, JText, JInt(0), JInt(1), JStr(5), JInt(6)}]

\* int(rating) raises TypeError for None and ValueError for a string that
\* holds no number
int_raises(j) == j.t \in {"null", "text"}

py_int(j) == j.v

\* faulty variant: only the lower end of the range is checked
rating_out_of_range_low_only(rating) == rating < 1

\* rating < 1 or rating > 5
rating_out_of_range(rating) == rating < 1 \/ rating > 5

\* faulty variant: feedback is also taken for an accepted session
session_completed_or_accepted(s) == s.status \in {COMPLETED, ACCEPTED}

session_completed(s) == s.status = COMPLETED

\* Feedback.query.filter_by(session_id=..., author_id=...).first()
existing_feedback(sid, uid) ==
    \E f \in FeedbackIds : feedback[f].session_id = sid /\ feedback[f].author_id = uid

\* faulty variant: the table has no uniqueness constraint
unique_feedback_missing(row) == TRUE

\* UniqueConstraint('session_id', 'author_id'): the insert of a row is
\* refused (IntegrityError) when a committed row has the same pair
unique_feedback_per_session(row) ==
    \A f \in FeedbackIds :
        ~(feedback[f].session_id = row.session_id /\ feedback[f].author_id = row.author_id)

\* the handler for an existing session up to the insert: the error reply, or
\* code 0 = passed
feedback_check(uid, sid, data) ==
    IF ~is_participant(uid, sessions[sid])
    THEN Reply(403, "You are not part of this session", 0)
    ELSE IF ~session_completed(sessions[sid])
    THEN Reply(400, "Feedback can only be given for completed sessions", 0)
    ELSE IF existing_feedback(sid, uid)
    THEN Reply(400, "You have already left feedback for this session", 0)
    ELSE IF int_raises(data.rating)
    THEN Reply(400, "Rating must be a number", 0)
    ELSE IF rating_out_of_range(py_int(data.rating))
    THEN Reply(400, "Rating must be between 1 and 5", 0)
    ELSE NoReply

feedback_row(uid, sid, data) ==
    [session_id |-> sid,
     author_id |-> uid,
     target_user_id |-> IF uid = sessions[sid].requester_id
                        THEN sessions[sid].mentor_id
                        ELSE sessions[sid].requester_id,
     rating |-> py_int(data.rating)]

\* db.session.add(feedback_obj); db.session.commit(), or the IntegrityError
\* handler
feedback_commit(row) ==
    IF unique_feedback_per_session(row)
    THEN feedback' = Append(feedback, row) /\ resp' = Reply(201, "", 0)
    ELSE /\ resp' = Reply(400, "You have already left feedback for this session", 0)
         /\ UNCHANGED feedback

FeedbackNotFound == Reply(500, "Failed to submit feedback", 0)

CreateFeedback(c, sid, data) ==
    /\ inflight[c] = Idle
    /\ IF ~authenticated(c)
       THEN resp' = Unauthorized /\ UNCHANGED feedback
       ELSE IF sid \notin SessionIds
       THEN resp' = FeedbackNotFound /\ UNCHANGED feedback
       ELSE IF feedback_check(current_user_id(c), sid, data) # NoReply
       THEN resp' = feedback_check(current_user_id(c), sid, data) /\ UNCHANGED feedback
       ELSE feedback_commit(feedback_row(current_user_id(c), sid, data))
    /\ UNCHANGED <<users, sessions, flask_session, inflight>>

CreateFeedbackBegin(c, sid, data) ==
    /\ inflight[c] = Idle
    /\ IF ~authenticated(c)
       THEN resp' = Unauthorized /\ UNCHANGED inflight
       ELSE IF sid \notin SessionIds
       THEN resp' = FeedbackNotFound /\ UNCHANGED inflight
       ELSE IF feedback_check(current_user_id(c), sid, data) # NoReply
       THEN resp' = feedback_check(current_user_id(c), sid, data) /\ UNCHANGED inflight
       ELSE /\ inflight' = [inflight EXCEPT ![c] =
                                [pc |-> "feedback",
                                 row |-> feedback_row(current_user_id(c), sid, data)]]
            /\ UNCHANGED resp
    /\ UNCHANGED <<users, sessions, feedback, flask_session>>

CreateFeedbackCommit(c) ==
    /\ inflight[c].pc = "feedback"
    /\ feedback_commit(inflight[c].row)
    /\ inflight' = [inflight EXCEPT ![c] = Idle]
    /\ UNCHANGED <<users, sessions, flask_session>>

UserFeedbackNotFound == Reply(500, "Failed to fetch feedback", 0)

GetUserFeedback(c, user_id) ==
    /\ inflight[c] = Idle
    /\ resp' = IF ~authenticated(c) THEN Unauthorized
               ELSE IF user_id \notin UserIds THEN UserFeedbackNotFound
               ELSE Reply(200, "", 0)
    /\ UNCHANGED <<users, sessions, feedback, flask_session, inflight>>

(***************************************************************************)
(* GET/PUT /api/profile, GET /api/users                                    *)
(***************************************************************************)
GetProfile(c) ==
    /\ inflight[c] = Idle
    /\ resp' = IF authenticated(c) THEN Reply(200, "", get_current_user(c)) ELSE Unauthorized
    /\ UNCHANGED <<users, sessions, feedback, flask_session, inflight>>

ROLE_ADMIN == <<"a", "d", "m", "i", "n">>

\* "role" of a PUT body: absent, or text
ProfileBody(role) == [role |-> role]

ProfileBodies ==
    { ProfileBody("absent"), ProfileBody(ROLE_ADMIN),
      ProfileBody(<<"M", "e", "n", "t", "e", "e", " ">>), ProfileBody(<<" ", "B", "o", "t", "h">>) }

\* the request bodies of the interleaved specification
ConcLoginBodies == { LoginBody(e, PW_VALID) : e \in {EMAIL_A_RAW, EMAIL_B} }

ConcSessionBodies ==
    { SessionBody(JInt(2), t, "none") : t \in {<<" ", "t">>, TOPIC_U} }

ConcStatusBodies == { StatusBody(status, <<>>) : status \in {ACCEPTED, REJECTED, COMPLETED} }

ConcFeedbackBodies == [rating : {JText, JStr(5)}]

\* "experience_years" of a PUT body: the empty text next to the other JSON
\* values
JEmpty == [t |-> "empty"]

ExperienceBody(experience_years) == [role |-> "absent", experience_years |-> experience_years]

ExperienceBodies ==
    { ExperienceBody(v) : v \in {JInt(5), JStr(5), JInt(0), JInt(-1), JNull, JEmpty, JText} }

\* the value the handler assigns to user.experience_years
profile_experience_years(val) ==
    IF val \in {JNull, JEmpty} THEN JNull
    ELSE IF int_raises(val) THEN JNull
    ELSE IF py_int(val) >= 0 THEN JInt(py_int(val))
    ELSE JNull

\* the user object after the assignments of the handler: its columns, and
\* the attribute experience_years, which the handler sets for a mentor (by
\* the role the user has before this request changes it) and which is not a
\* column of the users table
profile_assign(u, data) ==
    [columns |->
         IF data.role # "absent" /\ str_lower(str_strip(data.role)) \in Roles
         THEN [u EXCEPT !.role = str_lower(str_strip(data.role))]
         ELSE u,
     experience_years |->
         IF "experience_years" \in DOMAIN data /\ u.role \in {ROLE_MENTOR, ROLE_BOTH}
         THEN profile_experience_years(data.experience_years)
         ELSE [t |-> "unset"]]

\* db.session.commit(): the columns are written; an attribute of the object
\* that is no column is not
profile_row(u, data) == profile_assign(u, data).columns

PutProfile(c, data) ==
    /\ inflight[c] = Idle
    /\ IF ~authenticated(c)
       THEN resp' = Unauthorized /\ UNCHANGED users
       ELSE /\ users' = [users EXCEPT ![current_user_id(c)] = profile_row(@, data)]
            /\ resp' = Reply(200, "", current_user_id(c))
    /\ UNCHANGED <<sessions, feedback, flask_session, inflight>>

\* the query parameters role, show_all and q; a parameter that is not sent
\* reads as the empty text
ListArgs(role, show_all, q) == [role |-> role, show_all |-> show_all, q |-> q]

TRUE_TEXT == <<"t", "r", "u", "e">>

ListArgsSent ==
    { ListArgs(role, show_all, q) :
        role \in {<<>>, <<" ", "M", "e", "n", "t", "o", "r">>, ROLE_MENTEE, ROLE_BOTH, ROLE_ADMIN},
        show_all \in {<<>>, <<"T", "r", "u", "e">>, <<"t", "r", "u", "e", " ">>},
        q \in {<<>>, <<" ", "N">>, <<"z">>} }

\* column ILIKE '%search%'
ilike_contains(text, search) ==
    \E i \in 0..(Len(text) - Len(search)) :
        str_lower(SubSeq(text, i + 1, i + Len(search))) = str_lower(search)

\* faulty variant: the default filter is left out
list_role_filter_none(u, args) ==
    LET role == str_lower(str_strip(args.role))
    IN  IF role \in Roles THEN u.role = role ELSE TRUE

\* the role filter: the given role when it is one of the three, else mentor
\* and both unless show_all is "true"
list_role_filter(u, args) ==
    LET role     == str_lower(str_strip(args.role))
        show_all == str_lower(args.show_all) = TRUE_TEXT
    IN  IF role \in Roles THEN u.role = role
        ELSE IF ~show_all THEN u.role \in {ROLE_MENTOR, ROLE_BOTH}
        ELSE TRUE

\* the search filter on the name (interests and skills are not kept by the
\* model: no modelled request sets them)
list_search_filter(u, args) ==
    LET search == str_strip(args.q)
    IN  search # <<>> => ilike_contains(u.name, search)

\* the ids the query selects, newest account first
RECURSIVE list_query(_, _, _)
list_query(n, uid, args) ==
    IF n = 0 THEN <<>>
    ELSE IF list_role_filter(users[n], args) /\ list_search_filter(users[n], args) /\ n # uid
    THEN <<n>> \o list_query(n - 1, uid, args)
    ELSE list_query(n - 1, uid, args)

\* Feedback.query.filter_by(target_user_id=user.id).all()
feedbacks_of(u) == {f \in FeedbackIds : feedback[f].target_user_id = u}

RECURSIVE rating_sum(_)
rating_sum(fs) ==
    IF fs = {} THEN 0
    ELSE LET f == CHOOSE x \in fs : TRUE IN feedback[f].rating + rating_sum(fs \ {f})

\* faulty variant: the mean is cut off after the first decimal
round_1_truncating(total, n) == (10 * total) \div n

\* round(total / n, 1), in tenths: to the nearest tenth, a tie going to the
\* even one (the ties that can occur with the row counts of the model are
\* quarters, which a float holds exactly)
round_1(total, n) ==
    LET q == (10 * total) \div n
        r == (10 * total) % n
    IN  IF 2 * r < n THEN q
        ELSE IF 2 * r > n THEN q + 1
        ELSE IF q % 2 = 0 THEN q ELSE q + 1

\* user.to_dict_basic()
to_dict_basic(u) ==
    [id |-> u, name |-> users[u].name, email |-> users[u].email,
     experience |-> users[u].experience, role |-> users[u].role]

\* dict.pop(key, None)
dict_pop(d, key) == [k \in DOMAIN d \ {key} |-> d[k]]

\* one entry of the listing: the basic fields without the email, and the
\* rating figures (average_rating in tenths, or null)
list_entry(u) ==
    LET fs == feedbacks_of(u)
    IN  dict_pop(to_dict_basic(u), "email")
        @@ [average_rating |->
                IF fs # {} THEN [t |-> "num", tenths |-> round_1(rating_sum(fs), Cardinality(fs))]
                ELSE JNull,
            total_reviews |-> Cardinality(fs)]

list_users(uid, args) ==
    LET ids == list_query(Len(users), uid, args)
    IN  [i \in 1..Len(ids) |-> list_entry(ids[i])]

ListUsers(c, args) ==
    /\ inflight[c] = Idle
    /\ resp' = IF authenticated(c)
               THEN [code |-> 200, error |-> "", user |-> 0,
                     users |-> list_users(get_current_user(c), args)]
               ELSE Unauthorized
    /\ UNCHANGED <<users, sessions, feedback, flask_session, inflight>>

(***************************************************************************)
(* Specifications                                                          *)
(***************************************************************************)
\* the accounts of alice (mentee), bob (mentor) and carol (both), as three
\* signups on the empty database leave them (SpecAuth creates accounts)
SeedUsers ==
    << signup_user(SignupBody(NAME, EMAIL_A, PW_VALID, ROLE_MENTEE)),
       signup_user(SignupBody(NAME, EMAIL_B, PW_VALID, <<" ", "M", "e", "n", "t", "o", "r">>)),
       signup_user(SignupBody(NAME, EMAIL_C, PW_VALID, ROLE_BOTH)) >>

\* the three accounts exist, nobody is logged in, no session was requested
Init ==
    /\ users = SeedUsers
    /\ sessions = <<>>
    /\ feedback = <<>>
    /\ flask_session = [c \in Clients |-> 0]
    /\ resp = NoReply
    /\ inflight = [c \in Clients |-> Idle]

\* Spec: one browser, its requests handled one at a time, each to completion
Next ==
    \E c \in {"c1"} :
        \/ \E data \in LoginBodies : Login(c, data)
        \/ Logout(c)
        \/ Me(c)
        \/ GetProfile(c)
        \/ \E data \in {ProfileBody("absent"), ProfileBody(ROLE_ADMIN)} : PutProfile(c, data)
        \/ \E args \in {ListArgs(<<>>, <<>>, <<>>)} : ListUsers(c, args)
        \/ GetSessions(c)
        \/ \E data \in SessionBodies : CreateSession(c, data)
        \/ \E sid \in SessionIds, data \in StatusBodies : UpdateSessionStatus(c, sid, data)
        \/ UpdateSessionStatus(c, Len(sessions) + 1, StatusBody(ACCEPTED, <<>>))
        \/ \E sid \in SessionIds, data \in FeedbackBodies : CreateFeedback(c, sid, data)
        \/ CreateFeedback(c, Len(sessions) + 1, [rating |-> JStr(5)])
        \/ \E user_id \in 1..(Len(users) + 1) : GetUserFeedback(c, user_id)

Spec == Init /\ [][Next]_vars

\* SpecAuth: the empty database; two browsers sign up, log in and out and
\* edit their profiles, a signup of one running between the query and the
\* commit of a signup of the other
InitAuth ==
    /\ users = <<>>
    /\ sessions = <<>>
    /\ feedback = <<>>
    /\ flask_session = [c \in Clients |-> 0]
    /\ resp = NoReply
    /\ inflight = [c \in Clients |-> Idle]

NextAuth ==
    \E c \in Clients :
        \/ \E data \in SignupBodies : SignupBegin(c, data)
        \/ SignupCommit(c)
        \/ \E data \in LoginBodies : Login(c, data)
        \/ Logout(c)
        \/ Me(c)
        \/ GetProfile(c)
        \/ \E data \in ProfileBodies : PutProfile(c, data)

SpecAuth == InitAuth /\ [][NextAuth]_vars

\* SpecConc: the three accounts; two browsers whose session requests
\* interleave between the duplicate query and the insert
NextConc ==
    \E c \in Clients :
        \/ \E data \in ConcLoginBodies : Login(c, data)
        \/ \E data \in ConcSessionBodies : CreateSessionBegin(c, data)
        \/ CreateSessionCommit(c)
        \/ \E sid \in SessionIds, data \in ConcStatusBodies : UpdateSessionStatus(c, sid, data)

SpecConc == Init /\ [][NextConc]_vars

\* SpecFeedback: the three accounts; two browsers whose feedback submissions
\* interleave between the query for an earlier row and the insert
NextFeedback ==
    \E c \in Clients :
        \/ \E data \in ConcLoginBodies : Login(c, data)
        \/ CreateSession(c, SessionBody(JInt(2), TOPIC_T, "none"))
        \/ \E sid \in SessionIds, data \in ConcStatusBodies : UpdateSessionStatus(c, sid, data)
        \/ \E sid \in SessionIds, data \in ConcFeedbackBodies : CreateFeedbackBegin(c, sid, data)
        \/ CreateFeedbackCommit(c)

SpecFeedback == Init /\ [][NextFeedback]_vars

\* SpecRole: the three accounts; one browser, alice and bob taking turns on
\* it, changing their roles, requesting each other as mentor and listing
\* the users with every combination of parameters
RoleSessionBodies == { SessionBody(mentor_id, TOPIC_T, "none") : mentor_id \in {JInt(1), JInt(2)} }

NextRole ==
    \E c \in {"c1"} :
        \/ \E data \in ConcLoginBodies : Login(c, data)
        \/ \E data \in ProfileBodies : PutProfile(c, data)
        \/ \E data \in ExperienceBodies : PutProfile(c, data)
        \/ \E data \in RoleSessionBodies : CreateSession(c, data)
        \/ \E args \in ListArgsSent : ListUsers(c, args)

SpecRole == Init /\ [][NextRole]_vars

\* SpecList: the three accounts and three completed sessions that bob
\* mentored (two for alice, one for carol), as their requests, bob's
\* acceptances and the completions leave them; one browser, alice and carol
\* taking turns on it, rating the sessions and listing the users
CompletedSession(requester, mentor, topic) ==
    status_row(status_row(session_row(requester, SessionBody(JInt(mentor), topic, "none")),
                          StatusBody(ACCEPTED, <<>>)),
               StatusBody(COMPLETED, <<>>))

InitList ==
    /\ users = SeedUsers
    /\ sessions = << CompletedSession(1, 2, TOPIC_T), CompletedSession(3, 2, TOPIC_T),
                     CompletedSession(1, 2, TOPIC_U) >>
    /\ feedback = <<>>
    /\ flask_session = [c \in Clients |-> 0]
    /\ resp = NoReply
    /\ inflight = [c \in Clients |-> Idle]

ListLoginBodies == { LoginBody(e, PW_VALID) : e \in {EMAIL_A_RAW, EMAIL_C} }

ListRatingBodies == [rating : {JInt(3), JInt(4), JStr(5)}]

\* no parameter, and show_all alone
ListArgsPlain == {ListArgs(<<>>, <<>>, <<>>), ListArgs(<<>>, TRUE_TEXT, <<>>)}

NextList ==
    \E c \in {"c1"} :
        \/ \E data \in ListLoginBodies : Login(c, data)
        \/ \E sid \in SessionIds, data \in ListRatingBodies : CreateFeedback(c, sid, data)
        \/ \E args \in ListArgsPlain : ListUsers(c, args)

SpecList == InitList /\ [][NextList]_vars

\* SpecPassword: the empty database; one browser signs alice up with
\* passwords of every length up to 3 * MaxRun and every combination of
\* capitals, small letters and digits present or missing, and with long
\* passwords of digits alone and of digits and one small letter
Run(ch, n) == [i \in 1..n |-> ch]

Passwords ==
    { Run("A", k) \o Run("a", l) \o Run("1", m) : k \in 0..MaxRun, l \in 0..MaxRun, m \in 0..MaxRun }
    \cup { Run("2", m) \o Run("b", l) \o Run("B", k) : k \in {0, MaxRun}, l \in {0, MaxRun}, m \in {0, MaxRun} }
    \cup { Run("3", 2 * MaxRun), Run("3", 2 * MaxRun) \o Run("z", 1) }
    \cup { PW_VALID, PW_SHORT }

NextPassword ==
    \E c \in {"c1"} :
        \/ \E password \in Passwords : SignupBegin(c, SignupBody(NAME, EMAIL_A, password, ROLE_MENTEE))
        \/ SignupCommit(c)

SpecPassword == InitAuth /\ [][NextPassword]_vars

\* SpecStatus: the three accounts; two browsers, alice and bob on either,
\* a session between them, and status updates that interleave between the
\* load of the session and the commit
NextStatus ==
    \E c \in Clients :
        \/ \E data \in ConcLoginBodies : Login(c, data)
        \/ CreateSession(c, SessionBody(JInt(2), TOPIC_T, "none"))
        \/ \E sid \in SessionIds, data \in ConcStatusBodies : UpdateSessionStatusBegin(c, sid, data)
        \/ UpdateSessionStatusCommit(c)

SpecStatus == Init /\ [][NextStatus]_vars

\* SpecAgain: the three accounts; one browser, the three users taking turns
\* on it; alice and carol request bob for one topic, bob decides, a
\* participant completes, and they request again, up to MaxSessions + 1
\* sessions
AgainLoginBodies == { LoginBody(e, PW_VALID) : e \in {EMAIL_A_RAW, EMAIL_B, EMAIL_C} }

AgainSessionBodies == { SessionBody(JInt(2), topic, "none") : topic \in {TOPIC_T, <<" ", "t">>} }

NextAgain ==
    \E c \in {"c1"} :
        \/ \E data \in AgainLoginBodies : Login(c, data)
        \/ \E data \in AgainSessionBodies : CreateSessionWithin(c, data, MaxSessions + 1)
        \/ \E sid \in SessionIds, data \in ConcStatusBodies : UpdateSessionStatus(c, sid, data)

SpecAgain == Init /\ [][NextAgain]_vars

\* SpecRating: the three accounts; one browser, alice and bob taking turns
\* on it, a session between them, and feedback with every kind of rating
NextRating ==
    \E c \in {"c1"} :
        \/ \E data \in ConcLoginBodies : Login(c, data)
        \/ CreateSession(c, SessionBody(JInt(2), TOPIC_T, "none"))
        \/ \E sid \in SessionIds, data \in ConcStatusBodies : UpdateSessionStatus(c, sid, data)
        \/ \E sid \in SessionIds, data \in RatingBodies : CreateFeedback(c, sid, data)

SpecRating == Init /\ [][NextRating]_vars

(***************************************************************************)
(* Claims                                                                  *)
(***************************************************************************)
\* the transitions of the session status machine
StatusEdges ==
    { <<PENDING, ACCEPTED>>, <<PENDING, REJECTED>>, <<ACCEPTED, COMPLETED>>,
      <<COMPLETED, COMPLETED>> }

\* a step that is the PUT status request (sid, data) of a logged-in client c
\* on an existing session
StatusRequest(c, sid, data) ==
    /\ flask_session[c] # 0
    /\ sid \in SessionIds
    /\ UpdateSessionStatus(c, sid, data)

\* whether the caller is the one the target status is reserved to
MayRequest(uid, s, target) ==
    IF target \in {ACCEPTED, REJECTED} THEN uid = s.mentor_id
    ELSE IF target = COMPLETED THEN uid \in {s.requester_id, s.mentor_id}
    ELSE TRUE

\* every step: a new session is pending, and a stored status moves along an
\* edge or not at all
StatusMoves ==
    /\ Len(sessions') >= Len(sessions)
    /\ \A sid \in SessionIds :
           \/ sessions'[sid].status = sessions[sid].status
           \/ <<sessions[sid].status, sessions'[sid].status>> \in StatusEdges
    /\ \A sid \in (1..Len(sessions')) \ SessionIds : sessions'[sid].status = PENDING

\* C1 as stated: a session starts pending, a successful PUT status follows an
\* edge of the machine, and every other requested change is answered 400
\* and leaves the status as it was.
C1_AsStated ==
    [][ /\ StatusMoves
        /\ \A c \in Clients, sid \in SessionIds, data \in StatusBodies :
               StatusRequest(c, sid, data) =>
                   IF <<sessions[sid].status, data.status>> \in StatusEdges
                   THEN resp'.code = 200 => sessions'[sid].status = data.status
                   ELSE resp'.code = 400 /\ sessions' = sessions ]_vars

\* C1 (amended): a session starts pending, a successful PUT status follows an
\* edge of the machine, and every other requested change leaves the status as
\* it was and is answered 400 when the caller is the one the target status is
\* reserved to, 403 when not.
C1_StatusMachine ==
    [][ /\ StatusMoves
        /\ \A c \in Clients, sid \in SessionIds, data \in StatusBodies :
               StatusRequest(c, sid, data) =>
                   IF <<sessions[sid].status, data.status>> \in StatusEdges
                   THEN resp'.code = 200 => sessions'[sid].status = data.status
                   ELSE /\ sessions' = sessions
                        /\ resp'.code = IF MayRequest(flask_session[c], sessions[sid], data.status)
                                        THEN 400 ELSE 403 ]_vars

\* the mentor asked to accept or reject a session that is no longer pending
\* and was refused
C1_Witness ==
    /\ resp = Reply(400, "Only pending sessions can be accepted or rejected", 0)
    /\ \E sid \in SessionIds :
           /\ sessions[sid].status \in {REJECTED, COMPLETED}
           /\ flask_session["c1"] = sessions[sid].mentor_id

\* C2: accepted or rejected requested by a logged-in user who is not the
\* session's mentor is answered 403 and leaves the sessions table (status and
\* meeting_link) as it was, whatever the session's status.
C2_OnlyMentorDecides ==
    [][ \A c \in Clients, sid \in SessionIds, data \in StatusBodies :
            ( /\ StatusRequest(c, sid, data)
              /\ data.status \in {ACCEPTED, REJECTED}
              /\ flask_session[c] # sessions[sid].mentor_id )
            => resp'.code = 403 /\ sessions' = sessions ]_vars

\* the requester of an accepted session asked for accepted or rejected and got 403
C2_Witness ==
    /\ resp = Reply(403, "Only the mentor can accept or reject sessions", 0)
    /\ \E sid \in SessionIds :
           /\ flask_session["c1"] = sessions[sid].requester_id
           /\ flask_session["c1"] # sessions[sid].mentor_id
           /\ sessions[sid].status = ACCEPTED

\* C3: on an accepted session, completed requested by the requester or by the
\* mentor is answered 200 and stores completed; requested by any other
\* logged-in user it is answered 403 and changes nothing.
C3_ParticipantsComplete ==
    [][ \A c \in Clients, sid \in SessionIds, data \in StatusBodies :
            ( /\ StatusRequest(c, sid, data)
              /\ data.status = COMPLETED
              /\ sessions[sid].status = ACCEPTED )
            => IF flask_session[c] \in {sessions[sid].requester_id, sessions[sid].mentor_id}
               THEN /\ resp'.code = 200
                    /\ sessions' = [sessions EXCEPT ![sid].status = COMPLETED]
               ELSE resp'.code = 403 /\ sessions' = sessions ]_vars

\* the requester has completed an accepted session
C3_Witness ==
    /\ resp = Reply(200, "", 0)
    /\ \E sid \in SessionIds :
           /\ sessions[sid].status = COMPLETED
           /\ flask_session["c1"] = sessions[sid].requester_id
           /\ flask_session["c1"] # sessions[sid].mentor_id

\* C4: POST /api/sessions whose mentor_id names the caller's own id, as a
\* JSON number or as a JSON string, is answered 400 and adds no session.
C4_NoSelfRequest ==
    [][ \A c \in Clients, data \in SessionBodies :
            ( /\ flask_session[c] # 0
              /\ data.mentor_id.t \in {"int", "str"}
              /\ data.mentor_id.v = flask_session[c]
              /\ CreateSession(c, data) )
            => resp'.code = 400 /\ sessions' = sessions ]_vars

\* C5: every stored session has a requester and a mentor that are two
\* different existing users.
C5_TwoDistinctUsers ==
    \A sid \in SessionIds :
        /\ sessions[sid].requester_id # sessions[sid].mentor_id
        /\ sessions[sid].requester_id \in UserIds
        /\ sessions[sid].mentor_id \in UserIds

\* a step that is a request of a client without a user id in its cookie to a
\* login_required route
UnauthenticatedRequest(c) ==
    /\ flask_session[c] = 0
    /\ \/ GetProfile(c)
       \/ \E data \in ProfileBodies : PutProfile(c, data)
       \/ \E args \in ListArgsSent : ListUsers(c, args)
       \/ GetSessions(c)
       \/ \E data \in SessionBodies : CreateSession(c, data)
       \/ \E sid \in 1..(Len(sessions) + 1), data \in StatusBodies : UpdateSessionStatus(c, sid, data)
       \/ \E sid \in 1..(Len(sessions) + 1), data \in FeedbackBodies : CreateFeedback(c, sid, data)
       \/ \E user_id \in 1..(Len(users) + 1) : GetUserFeedback(c, user_id)

\* C9: a request without a user id in its login session to a login_required
\* route is answered 401 "Authentication required" and leaves the users, the
\* sessions, the feedback and the login sessions as they were.
C9_LoginRequired ==
    [][ \A c \in Clients :
            UnauthenticatedRequest(c)
            => /\ resp' = [code |-> 401, error |-> "Authentication required", user |-> 0]
               /\ UNCHANGED <<users, sessions, feedback, flask_session>> ]_vars

\* a logged-out client was refused while sessions and feedback are stored
C9_Witness ==
    /\ resp = [code |-> 401, error |-> "Authentication required", user |-> 0]
    /\ flask_session["c1"] = 0
    /\ sessions # <<>>
    /\ feedback # <<>>

\* C10: feedback posted by a participant of an existing session that is not
\* completed is answered 400 and adds no feedback row.
C10_FeedbackNeedsCompleted ==
    [][ \A c \in Clients, sid \in SessionIds, data \in FeedbackBodies :
            ( /\ flask_session[c] \in {sessions[sid].requester_id, sessions[sid].mentor_id}
              /\ sessions[sid].status # COMPLETED
              /\ CreateFeedback(c, sid, data) )
            => resp'.code = 400 /\ feedback' = feedback ]_vars

\* a participant of an accepted session was refused
C10_Witness ==
    /\ resp = Reply(400, "Feedback can only be given for completed sessions", 0)
    /\ \E sid \in SessionIds :
           /\ flask_session["c1"] \in {sessions[sid].requester_id, sessions[sid].mentor_id}
           /\ sessions[sid].status = ACCEPTED

\* C6: also when POST /api/sessions requests interleave, no two sessions that
\* are pending or accepted have the same requester, mentor and topic.
C6_OneOpenSessionPerTriple ==
    \A s1, s2 \in SessionIds :
        ( /\ s1 # s2
          /\ sessions[s1].status \in {PENDING, ACCEPTED}
          /\ sessions[s2].status \in {PENDING, ACCEPTED}
          /\ sessions[s1].requester_id = sessions[s2].requester_id
          /\ sessions[s1].mentor_id = sessions[s2].mentor_id )
        => sessions[s1].topic # sessions[s2].topic

\* a feedback row of author uid for session sid is stored
HasFeedback(sid, uid) ==
    \E f \in FeedbackIds : feedback[f].session_id = sid /\ feedback[f].author_id = uid

FeedbackPairsUnique ==
    /\ \A f1, f2 \in FeedbackIds :
           f1 # f2 => <<feedback[f1].session_id, feedback[f1].author_id>>
                      # <<feedback[f2].session_id, feedback[f2].author_id>>
    /\ \A sid \in SessionIds :
           Cardinality({f \in FeedbackIds : feedback[f].session_id = sid}) <= 2

AlreadyLeft == [code |-> 400, error |-> "You have already left feedback for this session", user |-> 0]

\* C7: also when feedback submissions interleave, a (session, author) pair
\* has at most one feedback row and a session at most two; a submission by a
\* participant of a completed session who has a row stored, at its query or
\* by the time of its insert, is answered 400 and adds nothing; one who has
\* none at its insert gets 201 and its row, whether or not the other
\* participant has one.
C7_FeedbackExclusive ==
    /\ []FeedbackPairsUnique
    /\ [][ \A c \in Clients :
               /\ \A sid \in SessionIds, data \in ConcFeedbackBodies :
                      ( /\ flask_session[c] \in {sessions[sid].requester_id, sessions[sid].mentor_id}
                        /\ sessions[sid].status = COMPLETED
                        /\ CreateFeedbackBegin(c, sid, data) )
                      => /\ feedback' = feedback
                         /\ IF HasFeedback(sid, flask_session[c])
                            THEN resp' = AlreadyLeft /\ inflight'[c].pc = "idle"
                            ELSE data.rating = JStr(5) => inflight'[c].pc = "feedback"
               /\ CreateFeedbackCommit(c)
                      => IF HasFeedback(inflight[c].row.session_id, inflight[c].row.author_id)
                         THEN resp' = AlreadyLeft /\ feedback' = feedback
                         ELSE resp'.code = 201 /\ feedback' = Append(feedback, inflight[c].row) ]_vars

\* both participants have a row, and a second submission of one of them
\* passed its query before that row was committed and is about to insert
C7_Witness ==
    \E c \in Clients :
        /\ inflight[c].pc = "feedback"
        /\ HasFeedback(inflight[c].row.session_id, inflight[c].row.author_id)
        /\ HasFeedback(inflight[c].row.session_id, inflight[c].row.target_user_id)

\* the email a stored or submitted email is equal to after trimming and
\* lower-casing
Canon(email) == str_lower(str_strip(email))

EmailsUnique ==
    \A u1, u2 \in UserIds : u1 # u2 => Canon(users[u1].email) # Canon(users[u2].email)

EmailTaken == [code |-> 400, error |-> "Email already registered", user |-> 0]

\* C8: no two users share an email, compared trimmed and lower-cased; a
\* signup whose email is registered at its query, or by the time of its
\* insert, is answered 400 "Email already registered", creates no user and
\* leaves the login session of its caller as it was.
C8_EmailUnique ==
    /\ []EmailsUnique
    /\ [][ \A c \in Clients :
               /\ \A data \in SignupBodies :
                      ( /\ data.email \in {EMAIL_A, EMAIL_A_RAW}
                        /\ \E u \in UserIds : Canon(users[u].email) = EMAIL_A
                        /\ SignupBegin(c, data) )
                      => /\ resp' = EmailTaken
                         /\ inflight'[c].pc = "idle"
                         /\ UNCHANGED <<users, flask_session>>
               /\ SignupCommit(c)
                      => IF \E u \in UserIds : Canon(users[u].email) = Canon(inflight[c].row.email)
                         THEN resp' = EmailTaken /\ UNCHANGED <<users, flask_session>>
                         ELSE /\ resp'.code = 201
                              /\ users' = Append(users, inflight[c].row)
                              /\ flask_session'[c] = Len(users) + 1 ]_vars

\* a signup passed its query, the same email was registered meanwhile, and
\* the signup is about to insert
C8_Witness ==
    \E c \in Clients :
        /\ inflight[c].pc = "signup"
        /\ \E u \in UserIds : users[u].email = inflight[c].row.email

\* the participant of session s other than uid
OtherParticipant(s, uid) == IF uid = s.requester_id THEN s.mentor_id ELSE s.requester_id

FeedbackRowsBetweenParticipants ==
    \A f \in FeedbackIds :
        /\ feedback[f].session_id \in SessionIds
        /\ feedback[f].author_id \in {sessions[feedback[f].session_id].requester_id,
                                     sessions[feedback[f].session_id].mentor_id}
        /\ feedback[f].target_user_id =
               OtherParticipant(sessions[feedback[f].session_id], feedback[f].author_id)
        /\ feedback[f].author_id # feedback[f].target_user_id

\* C11: feedback posted by a logged-in user who is not a participant of the
\* session is answered 403 and adds no row; in every stored feedback row the
\* author is the requester or the mentor of the session, the target is the
\* other participant, and author and target differ.
C11_FeedbackBetweenParticipants ==
    /\ []FeedbackRowsBetweenParticipants
    /\ [][ \A c \in Clients, sid \in SessionIds, data \in FeedbackBodies :
               ( /\ flask_session[c] # 0
                 /\ flask_session[c] \notin {sessions[sid].requester_id, sessions[sid].mentor_id}
                 /\ CreateFeedback(c, sid, data) )
               => resp'.code = 403 /\ feedback' = feedback ]_vars

\* C12: a feedback submission with rating 0, 6, null or text is never
\* accepted and adds no row, and is answered 400 when sent by a participant
\* of a completed session; with rating 1 or 5 the first submission of a
\* participant of a completed session is answered 201 and stores that
\* rating; every stored rating is in 1..5.
C12_RatingInRange ==
    /\ [](\A f \in FeedbackIds : feedback[f].rating \in 1..5)
    /\ [][ \A c \in Clients, sid \in SessionIds, data \in RatingBodies :
               ( /\ flask_session[c] # 0
                 /\ CreateFeedback(c, sid, data) )
               => IF data.rating \in {JInt(1), JStr(1), JInt(5), JStr(5)}
                  THEN ( /\ flask_session[c] \in {sessions[sid].requester_id, sessions[sid].mentor_id}
                         /\ sessions[sid].status = COMPLETED
                         /\ ~HasFeedback(sid, flask_session[c]) )
                       => /\ resp'.code = 201
                          /\ Len(feedback') = Len(feedback) + 1
                          /\ feedback'[Len(feedback')].rating = data.rating.v
                  ELSE /\ resp'.code # 201
                       /\ feedback' = feedback
                       /\ ( /\ flask_session[c] \in {sessions[sid].requester_id, sessions[sid].mentor_id}
                            /\ sessions[sid].status = COMPLETED )
                          => resp'.code = 400 ]_vars

\* one participant's rating 1 and the other's rating 5 are stored, and a
\* further submission was refused for its rating or as a repetition
C12_Witness ==
    /\ resp.code = 400
    /\ \E f1, f2 \in FeedbackIds : feedback[f1].rating = 1 /\ feedback[f2].rating = 5

\* C13: PUT /api/sessions/<id>/status by a logged-in user for an id that no
\* session has is answered 404 and changes no state.
C13_StatusOfMissingSession ==
    [][ \A c \in Clients, sid \in 1..(Len(sessions) + 1), data \in StatusBodies :
            ( /\ flask_session[c] # 0
              /\ sid \notin SessionIds
              /\ UpdateSessionStatus(c, sid, data) )
            => /\ resp'.code = 404
               /\ UNCHANGED <<users, sessions, feedback, flask_session>> ]_vars

\* C14: POST /api/sessions/<id>/feedback for an id that no session has, and
\* GET /api/users/<id>/feedback for an id that no user has, by a logged-in
\* user, are answered 404 and change no state.
C14_FeedbackOfMissingEntity ==
    [][ \A c \in Clients :
            /\ \A sid \in 1..(Len(sessions) + 1), data \in FeedbackBodies :
                   ( /\ flask_session[c] # 0
                     /\ sid \notin SessionIds
                     /\ CreateFeedback(c, sid, data) )
                   => /\ resp'.code = 404
                      /\ UNCHANGED <<users, sessions, feedback, flask_session>>
            /\ \A user_id \in 1..(Len(users) + 1) :
                   ( /\ flask_session[c] # 0
                     /\ user_id \notin UserIds
                     /\ GetUserFeedback(c, user_id) )
                   => /\ resp'.code = 404
                      /\ UNCHANGED <<users, sessions, feedback, flask_session>> ]_vars

InvalidCredentials == [code |-> 401, error |-> "Invalid email or password", user |-> 0]

\* the users whose stored email is the trimmed, lower-cased email
Registered(email) == {u \in UserIds : users[u].email = Canon(email)}

\* the password was given at the signup of user u
PlaintextOf(u, password) == users[u].password_hash = generate_password_hash(password)

\* C15: a login with an email and a password is answered 401 "Invalid email
\* or password", the same response, when no user has the email and when the
\* user exists and the password is wrong; it logs nobody in.
C15_LoginFailuresAlike ==
    [][ \A c \in Clients, data \in LoginBodies :
            ( /\ Canon(data.email) # <<>>
              /\ data.password # <<>>
              /\ \/ Registered(data.email) = {}
                 \/ \E u \in Registered(data.email) : ~PlaintextOf(u, data.password)
              /\ Login(c, data) )
            => resp' = InvalidCredentials /\ flask_session' = flask_session ]_vars

\* a login was refused while the accounts exist
C15_Witness ==
    /\ resp = InvalidCredentials
    /\ Registered(EMAIL_B) # {}
    /\ Registered(EMAIL_D) = {}

\* C16: a successful signup logs its caller in as the new user; no stored
\* password_hash is a password that was sent; and a login with the email of
\* a user in any letter case and the password of that user's signup is
\* answered 200 with that user and logs the caller in as that user.
C16_SignupThenLogin ==
    /\ [](\A u \in UserIds, data \in SignupBodies : users[u].password_hash # data.password)
    /\ [][ \A c \in Clients :
               /\ ( SignupCommit(c) /\ resp'.code = 201 )
                      => /\ Len(users') = Len(users) + 1
                         /\ flask_session'[c] = Len(users')
                         /\ resp'.user = Len(users')
               /\ \A data \in LoginBodies, u \in UserIds :
                      ( /\ str_lower(str_strip(data.email)) = users[u].email
                        /\ users[u].password_hash = <<"s", "c", "r", "y", "p", "t", "$">> \o data.password
                        /\ Login(c, data) )
                      => /\ resp'.code = 200
                         /\ resp'.user = u
                         /\ flask_session'[c] = u ]_vars

\* alice, whose signup logged one browser in, is logged in on the other
\* browser too, by a login with her email in capitals
C16_Witness ==
    /\ flask_session = [c \in Clients |-> 1]
    /\ resp = Reply(200, "", 1)
    /\ users[1].email = EMAIL_A

\* C17: a logout is answered 200, logged in or not, and leaves its client
\* without a user id; a client without a user id gets one only by a
\* successful login or signup of its own, and until then GET /api/auth/me
\* answers with no user and every login_required route answers 401.
C17_LogoutEndsLogin ==
    [][ \A c \in Clients :
            /\ Logout(c) => resp'.code = 200 /\ flask_session'[c] = 0
            /\ ( flask_session[c] = 0 /\ flask_session'[c] # 0 )
                   => /\ \/ \E data \in LoginBodies : Login(c, data)
                         \/ SignupCommit(c)
                      /\ resp'.code \in {200, 201}
                      /\ resp'.user = flask_session'[c]
            /\ ( flask_session[c] = 0 /\ Me(c) )
                   => resp' = [code |-> 200, error |-> "", user |-> 0]
            /\ UnauthenticatedRequest(c)
                   => resp' = [code |-> 401, error |-> "Authentication required", user |-> 0] ]_vars

\* a client that holds no user id logged out again, with sessions stored
C17_Witness ==
    /\ resp = [code |-> 200, error |-> "", user |-> 0]
    /\ flask_session["c1"] = 0
    /\ \E sid \in SessionIds : sessions[sid].status = COMPLETED

\* C18: POST /api/sessions naming an existing user other than the caller
\* whose role is mentee at that moment is answered 400 and adds no session;
\* whenever a session is added, the role of its mentor is mentor or both at
\* that moment.
C18_MentorRoleRequired ==
    [][ \A c \in Clients, data \in RoleSessionBodies :
            ( /\ flask_session[c] # 0
              /\ CreateSession(c, data) )
            => /\ ( /\ data.mentor_id.v \in UserIds
                    /\ data.mentor_id.v # flask_session[c]
                    /\ users[data.mentor_id.v].role = ROLE_MENTEE )
                  => resp'.code = 400 /\ sessions' = sessions
               /\ sessions' # sessions
                  => /\ Len(sessions') = Len(sessions) + 1
                     /\ users[sessions'[Len(sessions')].mentor_id].role \in {ROLE_MENTOR, ROLE_BOTH} ]_vars

\* bob, who was a mentor, is a mentee now, and alice's request to him was
\* refused
C18_Witness ==
    /\ resp = Reply(400, "This user is not available as a mentor", 0)
    /\ flask_session["c1"] = 1
    /\ users[2].role = ROLE_MENTEE

\* the ids of the entries of a listing
ListedIds(listing) == {listing[i].id : i \in 1..Len(listing)}

\* C19: GET /api/users without q by a logged-in caller: with a role
\* parameter that is one of the three roles (trimmed, lower-cased) it lists
\* exactly the other users of that role, whatever show_all is; without one
\* and with show_all not "true" it lists exactly the other users whose role
\* is mentor or both; each user is listed once and no entry has an email.
C19_ListingFilter ==
    [][ \A c \in Clients, args \in ListArgsSent :
            ( /\ flask_session[c] # 0
              /\ str_strip(args.q) = <<>>
              /\ ListUsers(c, args) )
            => /\ resp'.code = 200
               /\ Cardinality(ListedIds(resp'.users)) = Len(resp'.users)
               /\ \A i \in 1..Len(resp'.users) : "email" \notin DOMAIN resp'.users[i]
               /\ IF str_lower(str_strip(args.role)) \in {ROLE_MENTOR, ROLE_MENTEE, ROLE_BOTH}
                  THEN ListedIds(resp'.users) =
                           {u \in UserIds \ {flask_session[c]} :
                                users[u].role = str_lower(str_strip(args.role))}
                  ELSE str_lower(args.show_all) # <<"t", "r", "u", "e">>
                       => ListedIds(resp'.users) =
                              {u \in UserIds \ {flask_session[c]} :
                                   users[u].role \in {ROLE_MENTOR, ROLE_BOTH}} ]_vars

\* alice, who now mentors too, got a listing of bob and carol without
\* herself
C19_Witness ==
    /\ flask_session["c1"] = 1
    /\ users[1].role = ROLE_BOTH
    /\ resp.code = 200
    /\ "users" \in DOMAIN resp
    /\ ListedIds(resp.users) = {2, 3}

\* the sum of the ratings of the first k feedback rows that target user u
RECURSIVE RatingTotal(_, _)
RatingTotal(k, u) ==
    IF k = 0 THEN 0
    ELSE RatingTotal(k - 1, u)
         + (IF feedback[k].target_user_id = u THEN feedback[k].rating ELSE 0)

ReviewCount(u) == Cardinality({f \in FeedbackIds : feedback[f].target_user_id = u})

\* C20: in a listing, total_reviews of a user is the number of feedback rows
\* that target the user; average_rating is null exactly when that number
\* is 0, and else a tenth that is nearest to the mean of their ratings
\* (ratings 5, 4 and 3 give 4.0 with 3 reviews).
C20_ListingRatings ==
    [][ \A c \in Clients, args \in ListArgsPlain :
            ( /\ flask_session[c] # 0
              /\ ListUsers(c, args) )
            => \A i \in 1..Len(resp'.users) :
                   LET e == resp'.users[i]
                       n == ReviewCount(e.id)
                   IN  /\ e.total_reviews = n
                       /\ (e.average_rating = [t |-> "null"]) <=> (n = 0)
                       /\ n > 0 =>
                              /\ e.average_rating.t = "num"
                              /\ 2 * (10 * RatingTotal(Len(feedback), e.id) - n * e.average_rating.tenths) <= n
                              /\ 2 * (n * e.average_rating.tenths - 10 * RatingTotal(Len(feedback), e.id)) <= n
                              /\ ( n = 3 /\ RatingTotal(Len(feedback), e.id) = 12 )
                                     => e.average_rating.tenths = 40 ]_vars

\* bob is listed with the three ratings 5, 4 and 3 as 4.0, next to a user
\* without reviews
C20_Witness ==
    /\ resp.code = 200
    /\ "users" \in DOMAIN resp
    /\ {feedback[f].rating : f \in FeedbackIds} = {3, 4, 5}
    /\ \E i, j \in 1..Len(resp.users) :
           /\ resp.users[i].id = 2
           /\ resp.users[i].total_reviews = 3
           /\ resp.users[i].average_rating = [t |-> "num", tenths |-> 40]
           /\ resp.users[j].total_reviews = 0
           /\ resp.users[j].average_rating = [t |-> "null"]

\* the rules of the password policy, in the order they are reported
PasswordRules(password) ==
    << password # <<>>,
       Len(password) >= 8,
       \E i \in 1..Len(password) : password[i] \in {"A", "B", "M", "N", "T", "V"},
       \E i \in 1..Len(password) : password[i] \notin {"A", "B", "M", "N", "T", "V", "1", "2", "3", " "},
       \E i \in 1..Len(password) : password[i] \in {"1", "2", "3"} >>

PasswordErrors ==
    << "Password is required",
       "Password must be at least 8 characters long",
       "Password must contain at least one uppercase letter",
       "Password must contain at least one lowercase letter",
       "Password must contain at least one number" >>

\* "" when every rule holds, else the error of the first rule that fails
FirstPasswordError(password) ==
    LET failing == {r \in 1..5 : ~PasswordRules(password)[r]}
    IN  IF failing = {} THEN ""
        ELSE PasswordErrors[CHOOSE r \in failing : \A q \in failing : r <= q]

\* C21: validate_password accepts a password exactly when it is not empty,
\* has 8 or more characters and holds a capital, a small letter and a
\* digit, and else reports the first failing rule in the order empty,
\* length, uppercase, lowercase, digit; a signup on the empty table with a
\* good name and email is refused with that error, or goes on to its
\* insert.
C21_PasswordPolicy ==
    /\ [](\A password \in Passwords : validate_password(password) = FirstPasswordError(password))
    /\ [][ \A c \in Clients, password \in Passwords :
               ( /\ users = <<>>
                 /\ SignupBegin(c, SignupBody(NAME, EMAIL_A, password, ROLE_MENTEE)) )
               => IF FirstPasswordError(password) = ""
                  THEN inflight'[c].pc = "signup" /\ resp' = resp
                  ELSE /\ resp' = [code |-> 400, error |-> FirstPasswordError(password), user |-> 0]
                       /\ inflight' = inflight ]_vars

\* a signup was refused for a password of 8 or more characters without a
\* small letter
C21_Witness ==
    /\ users = <<>>
    /\ resp = [code |-> 400, error |-> "Password must contain at least one lowercase letter", user |-> 0]

\* C22: completed requested by the requester or the mentor of a session
\* that is completed already is answered 200 and leaves the sessions, the
\* feedback, the users and the login sessions as they were, so that
\* repeating it changes nothing either.
C22_CompleteAgain ==
    [][ \A c \in Clients, sid \in SessionIds, data \in ConcStatusBodies :
            ( /\ flask_session[c] \in {sessions[sid].requester_id, sessions[sid].mentor_id}
              /\ sessions[sid].status = COMPLETED
              /\ data.status = COMPLETED
              /\ UpdateSessionStatus(c, sid, data) )
            => /\ resp' = [code |-> 200, error |-> "", user |-> 0]
               /\ UNCHANGED <<users, sessions, feedback, flask_session>> ]_vars

\* a status update succeeded on a session that was completed before, as
\* the feedback row it has shows
C22_Witness ==
    /\ resp = [code |-> 200, error |-> "", user |-> 0]
    /\ \E sid \in SessionIds :
           /\ sessions[sid].status = COMPLETED
           /\ \E f \in FeedbackIds : feedback[f].session_id = sid
           /\ \A other \in SessionIds : other = sid

\* a step in which the mentor of the pending session sid accepts it
MentorAccepts(c, sid, data) ==
    /\ sid \in SessionIds
    /\ flask_session[c] = sessions[sid].mentor_id
    /\ sessions[sid].status = PENDING
    /\ data.status = ACCEPTED
    /\ UpdateSessionStatus(c, sid, data)

\* C23 as stated: the meeting_link of a session changes only when its
\* mentor accepts it while pending with a non-empty meeting_link, and then
\* becomes the value sent.
C23_AsStated ==
    [][ \A sid \in SessionIds :
            /\ sessions'[sid].meeting_link # sessions[sid].meeting_link
                   => \E c \in Clients, data \in StatusBodies :
                          MentorAccepts(c, sid, data) /\ data.meeting_link # <<>>
            /\ \A c \in Clients, data \in StatusBodies :
                   ( MentorAccepts(c, sid, data) /\ data.meeting_link # <<>> )
                   => sessions'[sid].meeting_link = data.meeting_link ]_vars

\* C23 (amended): the meeting_link of a session changes only when its
\* mentor accepts it while pending with a meeting_link that is not empty
\* after trimming, and then becomes the trimmed value; every other request,
\* successful or failed, leaves it as it was.
C23_MeetingLinkOnAccept ==
    [][ \A sid \in SessionIds :
            /\ sessions'[sid].meeting_link # sessions[sid].meeting_link
                   => \E c \in Clients, data \in StatusBodies :
                          MentorAccepts(c, sid, data) /\ str_strip(data.meeting_link) # <<>>
            /\ \A c \in Clients, data \in StatusBodies :
                   ( MentorAccepts(c, sid, data) /\ str_strip(data.meeting_link) # <<>> )
                   => /\ sessions'[sid].meeting_link = str_strip(data.meeting_link)
                      /\ resp'.code = 200 ]_vars

\* the mentor's acceptance stored a link, and the session was completed
\* later with the link kept
C23_Witness ==
    \E sid \in SessionIds :
        /\ sessions[sid].meeting_link = <<"l">>
        /\ sessions[sid].status = COMPLETED

\* C24: PUT /api/profile with experience_years by a caller whose role is
\* mentor or both stores the value when it is a non-negative integer and
\* clears the stored value when it is null, empty, text or negative; for a
\* caller whose role is mentee the stored value stays as it was.
C24_ExperienceStored ==
    [][ \A c \in Clients, data \in ExperienceBodies :
            ( /\ flask_session[c] # 0
              /\ PutProfile(c, data) )
            => /\ resp'.code = 200
               /\ users'[flask_session[c]].experience =
                      IF users[flask_session[c]].role = ROLE_MENTEE
                      THEN users[flask_session[c]].experience
                      ELSE IF data.experience_years \in {JInt(5), JStr(5)} THEN JInt(5)
                      ELSE IF data.experience_years = JInt(0) THEN JInt(0)
                      ELSE JNull ]_vars

\* C25: also when status updates of one session interleave, the stored
\* status never goes from accepted to rejected, from rejected to accepted,
\* or from completed to accepted or rejected.
C25_StatusMachineUnderRaces ==
    [][ \A sid \in SessionIds :
            <<sessions[sid].status, sessions'[sid].status>> \notin
                { <<ACCEPTED, REJECTED>>, <<REJECTED, ACCEPTED>>,
                  <<COMPLETED, ACCEPTED>>, <<COMPLETED, REJECTED>> } ]_vars

\* C26: when requests do not overlap, every feedback row belongs to a
\* session whose status is completed: a row is added only for a completed
\* session, and a completed session keeps that status.
C26_FeedbackOnCompleted ==
    /\ [](\A f \in FeedbackIds :
              /\ feedback[f].session_id \in SessionIds
              /\ sessions[feedback[f].session_id].status = "completed")
    /\ [][ /\ \A f \in (1..Len(feedback')) \ FeedbackIds :
                  /\ feedback'[f].session_id \in SessionIds
                  /\ sessions[feedback'[f].session_id].status = "completed"
           /\ \A sid \in SessionIds :
                  sessions[sid].status = "completed" => sessions'[sid].status = "completed" ]_vars

\* both participants of a completed session have left feedback, and a
\* later status update of that session was refused
C26_Witness ==
    /\ Len(feedback) = 2
    /\ resp = [code |-> 400, error |-> "Only pending sessions can be accepted or rejected", user |-> 0]
    /\ \A f \in FeedbackIds : sessions[feedback[f].session_id].status = "completed"

\* the sessions of requester uid with mentor 2 and the trimmed topic, by
\* status
SessionsOfTriple(uid, topic, statuses) ==
    {sid \in SessionIds :
        /\ sessions[sid].requester_id = uid
        /\ sessions[sid].mentor_id = 2
        /\ sessions[sid].topic = str_strip(topic)
        /\ sessions[sid].status \in statuses}

\* C27: when a requester has a rejected or completed session with a mentor
\* for a topic and no pending or accepted one, a new request of that
\* requester for the same mentor and topic is answered 201 and adds a
\* pending session; the earlier sessions stay as they were.
C27_RequestAgain ==
    [][ \A c \in Clients, data \in AgainSessionBodies :
            ( /\ flask_session[c] \notin {0, 2}
              /\ users[2].role \in {ROLE_MENTOR, ROLE_BOTH}
              /\ SessionsOfTriple(flask_session[c], data.topic, {"rejected", "completed"}) # {}
              /\ SessionsOfTriple(flask_session[c], data.topic, {"pending", "accepted"}) = {}
              /\ CreateSessionWithin(c, data, MaxSessions + 1) )
            => /\ resp'.code = 201
               /\ Len(sessions') = Len(sessions) + 1
               /\ \A sid \in SessionIds : sessions'[sid] = sessions[sid]
               /\ sessions'[Len(sessions')].requester_id = flask_session[c]
               /\ sessions'[Len(sessions')].mentor_id = 2
               /\ sessions'[Len(sessions')].topic = str_strip(data.topic)
               /\ sessions'[Len(sessions')].status = "pending" ]_vars

\* alice's first request to bob was rejected and her second one for the
\* same topic is pending
C27_Witness ==
    /\ Len(sessions) >= 2
    /\ resp = [code |-> 201, error |-> "", user |-> 0]
    /\ sessions[1].status \in {"rejected", "completed"}
    /\ sessions[2].status = "pending"
    /\ sessions[1].requester_id = sessions[2].requester_id
    /\ sessions[1].mentor_id = sessions[2].mentor_id
    /\ sessions[1].topic = sessions[2].topic

\* C28: a login answered 400 or 401 leaves the user id of every client as
\* it was, the caller's included, logged in or not; the user id of a client
\* is set or replaced only by a successful login or signup of that client,
\* to the user of the reply, and it is removed only by a logout of that
\* client.
C28_FailedLoginKeepsSession ==
    [][ \A c \in Clients :
            /\ \A data \in LoginBodies :
                   ( Login(c, data) /\ resp'.code \in {400, 401} )
                       => flask_session' = flask_session
            /\ ( flask_session'[c] # flask_session[c] /\ flask_session'[c] # 0 )
                   => /\ \/ \E data \in LoginBodies : Login(c, data) /\ resp'.code = 200
                         \/ SignupCommit(c) /\ resp'.code = 201
                      /\ resp'.user = flask_session'[c]
            /\ ( flask_session[c] # 0 /\ flask_session'[c] = 0 )
                   => Logout(c) ]_vars

\* both browsers hold a user id and the last request was a login refused
\* with 400 or 401
C28_Witness ==
    /\ \A c \in Clients : flask_session[c] # 0
    /\ resp.code \in {400, 401}
    /\ resp.error \in {"Email and password are required", "Invalid email or password"}

====
